---------------------------- MODULE Spec2Model ----------------------------
(***************************************************************************)
(* Transfer orchestration of the Telegram -> Wasabi file bot (src/main.py). *)
(*                                                                         *)
(* One invocation of TelegramFileBot.handle_file_upload is a coroutine; it *)
(* is modelled as a program counter that moves from one await to the next. *)
(* The upload leg (WasabiStorage.upload_file) runs a worker thread that    *)
(* calls the ProgressTracker and a polling loop on the event loop.         *)
(*                                                                         *)
(* Every call into the chat transport (reply_text, edit_text) and into the *)
(* object store may raise; the outcome is chosen by the action.            *)
(*                                                                         *)
(* File sizes are counted in KiB so that the 4 GiB limit fits the model    *)
(* checker's 32-bit integers: a model size s stands for s * 1024 bytes.    *)
(***************************************************************************)
EXTENDS Integers, FiniteSets, Sequences, TLC

\* The handler invocations in flight (independently scheduled coroutines).
Invocations == {"a", "b"}

\* Number of progress callbacks a complete upload delivers to the tracker.
MaxChunks == 2

\* `4 * 1024 * 1024 * 1024` bytes, in KiB.
MaxFileSize == 4 * 1024 * 1024

\* Declared sizes of inbound files (KiB): exactly the limit, and above it.
Sizes == {MaxFileSize, MaxFileSize + 1}

VARIABLES
    pc,             \* position of each handler invocation
    ev,             \* the inbound message: [has_file, file_size]
    acquired,       \* times the invocation entered `async with self.throttler`
    nextId,         \* source of fresh uuid4 values
    file_id,        \* the id generated by the invocation (0: none yet)
    staging,        \* local_file_path: "none", "path", "file", "removed"
    dl,             \* download_media: "none", "running", "ok", "failed"
    wk,             \* upload_sync in the executor: "none", "running", "ok",
                    \*   "clienterror", "error"
    sent,           \* ProgressTracker.bytes_transferred (in chunks)
    snap,           \* ProgressTracker.current_progress (0: None)
    lock,           \* ProgressTracker.lock: "free", "worker", "poller"
    poll,           \* position of the polling loop in upload_file
    task_done,      \* upload_task.done(): the loop has completed the future
    upret,          \* result of upload_file: "none", "url", "None", "raised"
    uploaded_files, \* the registry: file_id -> record
    msgs,           \* kinds of status text the invocation tried to send
    late,           \* a leg-B snapshot was forwarded after the worker had finished
    finals          \* publishes attempted after upload_file returned

\* One ProgressTracker called from several upload-part threads and read by
\* the polling routine (the state of the tracker specification).
VARIABLES
    total_size,         \* ProgressTracker.total_size
    bytes_transferred,  \* ProgressTracker.bytes_transferred
    last_update_time,   \* ProgressTracker.last_update_time (ticks)
    current_progress,   \* ProgressTracker.current_progress: << >> is None,
                        \*   <<text>> a rendered text
    tracker_lock,       \* ProgressTracker.lock: "free" or its holder
    clock,              \* time.time(), in ticks of half a second
    calls,              \* each thread's position inside __call__
    reader,             \* the position of get_progress: "idle", "locked"
    seen,               \* what get_progress returned last
    delivered,          \* sum of the deltas handed to __call__ so far
    last_call           \* << >> or <<[overwrote, gap, complete]>>: what the
                        \*   call that returned last did

\* The Throttler of the bot (the state of the rate-limiter specification).
VARIABLES
    task_logs,          \* Throttler._task_logs: times of the admissions kept
    admitted            \* the times of all admissions so far, in order

\* The registry and its readers (the state of the registry specifications).
VARIABLES
    order,              \* insertion order of the keys of uploaded_files
    reply,              \* the answer of the handler or route that ran last
    api,                \* the /api/files request running on the HTTP thread
    drawn,              \* id -> owner: the uploads that have their id (line
                        \*   374) and are not registered: under way, or failed
    dlcmd               \* << >>, or <<answer>>: a /download handler suspended
                        \*   in a reply_text that is going to raise

\* The two progress renderers side by side (the state of the renderer
\* specification).
VARIABLES
    sample              \* the last input given to both legs, with what each made of it

\* The staging directory and the bucket (the state of the storage
\* specification).
VARIABLES
    disk,               \* staging path -> the invocation that wrote the file
    bucket              \* object key -> the invocation that uploaded the object

mainVars == <<pc, ev, acquired, nextId, file_id, staging, dl, wk, sent, snap,
              lock, poll, task_done, upret, msgs, late, finals>>
trackerVars == <<total_size, bytes_transferred, last_update_time,
                 current_progress, tracker_lock, calls, reader, seen,
                 delivered, last_call>>
throttleVars == <<task_logs, admitted>>
regVars == <<order, reply, api, drawn, dlcmd>>
renderVars == <<sample>>
storeVars == <<disk, bucket>>

\* What the handler's steps leave alone: the state of the other
\* specifications.
outside == <<trackerVars, clock, throttleVars, regVars, renderVars, storeVars>>

vars == <<mainVars, uploaded_files, trackerVars, clock, throttleVars, regVars,
          renderVars, storeVars>>

\* Groups of variables, for UNCHANGED.
evVars == <<ev, acquired>>
idVars == <<nextId, file_id>>
legB == <<wk, sent, snap, lock, poll, task_done, upret>>
hist == <<late, finals>>

NoEvent == [has_file |-> FALSE, file_size |-> 0]

\* The threads of the multipart upload that call the tracker.
Threads == {"t1", "t2"}

\* The clock value at which a tracker is constructed; time.time() is far
\* above the update interval, last_update_time starts at 0.
ClockStart == 10

\* How far the clock advances during one run.
MaxElapsed == 4

\* Largest total_size of a tracker, and largest delta of one callback.
MaxTotal == 2
MaxDelta == 2

\* No call is inside the tracker.
NoCall == [pc |-> "idle", delta |-> 0, tmp |-> 0, now |-> 0, pctb |-> 0]

\* ProgressTracker.__init__, for a tracker of the given size.
TrackerInit(size) ==
    /\ total_size = size
    /\ bytes_transferred = 0
    /\ last_update_time = 0
    /\ current_progress = << >>
    /\ tracker_lock = "free"
    /\ calls = [t \in Threads |-> NoCall]
    /\ reader = "idle"
    /\ seen = << >>
    /\ delivered = 0
    /\ last_call = << >>

\* Throttler.__init__: no admission logged.
ThrottlerInit ==
    /\ task_logs = << >>
    /\ admitted = << >>

\* No request is running and nothing has been answered.
NoRequest == [pc |-> "idle"]
ReadersInit ==
    /\ order = << >>
    /\ reply = [op |-> "none"]
    /\ api = NoRequest
    /\ drawn = << >>
    /\ dlcmd = << >>

\* The staging directory and the bucket hold nothing of this run.
StorageInit ==
    /\ disk = << >>
    /\ bucket = << >>

\* Nothing has been rendered.
NoSample == [given |-> FALSE]
RenderersInit == sample = NoSample

\* TelegramFileBot.__init__ and the handlers before any message.
HandlersInit ==
    /\ pc = [i \in Invocations |-> "idle"]
    /\ ev = [i \in Invocations |-> NoEvent]
    /\ acquired = [i \in Invocations |-> 0]
    /\ nextId = 1
    /\ file_id = [i \in Invocations |-> 0]
    /\ staging = [i \in Invocations |-> "none"]
    /\ dl = [i \in Invocations |-> "none"]
    /\ wk = [i \in Invocations |-> "none"]
    /\ sent = [i \in Invocations |-> 0]
    /\ snap = [i \in Invocations |-> 0]
    /\ lock = [i \in Invocations |-> "free"]
    /\ poll = [i \in Invocations |-> "none"]
    /\ task_done = [i \in Invocations |-> FALSE]
    /\ upret = [i \in Invocations |-> "none"]
    /\ uploaded_files = << >>
    /\ msgs = [i \in Invocations |-> {}]
    /\ late = [i \in Invocations |-> FALSE]
    /\ finals = [i \in Invocations |-> 0]

Init ==
    /\ HandlersInit
    /\ TrackerInit(1)
    /\ clock = ClockStart
    /\ ThrottlerInit
    /\ ReadersInit
    /\ RenderersInit
    /\ StorageInit

\* A file message reaches the handler (file_handler -> handle_file_upload).
Arrive(i) ==
    /\ UNCHANGED outside
    /\ pc[i] = "idle"
    /\ \E e \in {NoEvent} \cup [has_file : {TRUE}, file_size : Sizes] :
         ev' = [ev EXCEPT ![i] = e]
    /\ pc' = [pc EXCEPT ![i] = "throttle"]
    /\ UNCHANGED <<acquired, idVars, staging, dl, legB, uploaded_files, msgs, hist>>

\* `async with self.throttler:` admits the invocation.
Acquire(i) ==
    /\ UNCHANGED outside
    /\ pc[i] = "throttle"
    /\ acquired' = [acquired EXCEPT ![i] = @ + 1]
    /\ pc' = [pc EXCEPT ![i] = "guard"]
    /\ UNCHANGED <<ev, idVars, staging, dl, legB, uploaded_files, msgs, hist>>

\* `if file_size > 4 * 1024 * 1024 * 1024:` -- the size guard.
TooLargeInclusive(size) == size >= MaxFileSize
TooLargeNever(size) == FALSE
TooLarge(size) == size > MaxFileSize

\* The text of a status message is recorded by its kind; a send is recorded
\* when the call is made, whether or not the transport then raises.
Say(i, kind) == msgs' = [msgs EXCEPT ![i] = @ \cup {kind}]

\* A reply_text / edit_text made after upload_file returned (or raised).
CountFinal(i) ==
    finals' = [finals EXCEPT ![i] = IF upret[i] # "none" THEN @ + 1 ELSE @]

\* Lines 352-379: file_info selection, the size guard, id generation and
\* the call of reply_text; the coroutine is suspended in that await.
Guard(i) ==
    /\ UNCHANGED outside
    /\ pc[i] = "guard"
    /\ IF ~ev[i].has_file
       THEN /\ Say(i, "unsupported")
            /\ pc' = [pc EXCEPT ![i] = "rejected"]
            /\ UNCHANGED idVars
       ELSE IF TooLarge(ev[i].file_size)
       THEN /\ Say(i, "toolarge")
            /\ pc' = [pc EXCEPT ![i] = "rejected"]
            /\ UNCHANGED idVars
       ELSE /\ file_id' = [file_id EXCEPT ![i] = nextId]
            /\ nextId' = nextId + 1
            /\ Say(i, "init")
            /\ pc' = [pc EXCEPT ![i] = "initsent"]
    /\ UNCHANGED <<evVars, staging, dl, legB, uploaded_files, hist>>

\* Lines 379-394: reply_text has returned or raised; on its return the
\* staging path is built and download_media is called.
StartDownload(i) ==
    /\ UNCHANGED outside
    /\ pc[i] = "initsent"
    /\ \E ok \in BOOLEAN :
         IF ok
         THEN /\ staging' = [staging EXCEPT ![i] = "path"]
              /\ dl' = [dl EXCEPT ![i] = "running"]
              /\ pc' = [pc EXCEPT ![i] = "downloading"]
         ELSE /\ pc' = [pc EXCEPT ![i] = "except"]
              /\ UNCHANGED <<staging, dl>>
    /\ UNCHANGED <<evVars, idVars, legB, uploaded_files, msgs, hist>>

\* DownloadProgress.update: a leg-A progress edit; its failure is swallowed
\* by the try/except around edit_text.
DlProgress(i) ==
    /\ UNCHANGED outside
    /\ pc[i] = "downloading"
    /\ \E ok \in BOOLEAN : Say(i, "dlprogress")
    /\ UNCHANGED <<pc, evVars, idVars, staging, dl, legB, uploaded_files, hist>>

\* _turbo_download_media: `except Exception as e: ... raise e` hands a failed
\* download to the handler's except clause.
AfterDownloadErrorRetried == "guard"
AfterDownloadError == "except"

\* The position of a handler whose download_media returned: the value
\* returned is not looked at (lines 601-605, 392), the path of a file or
\* None alike.
AfterDownloadReturn == "downloaded"

\* download_media returns with the file at the staging path, raises (no
\* file is taken to be left at the staging path), or returns None with
\* no file written, the way the client library reports a download that
\* failed.
DownloadReturn(i) ==
    /\ UNCHANGED outside
    /\ pc[i] = "downloading"
    /\ \/ /\ dl' = [dl EXCEPT ![i] = "ok"]
          /\ staging' = [staging EXCEPT ![i] = "file"]
          /\ pc' = [pc EXCEPT ![i] = AfterDownloadReturn]
       \/ /\ dl' = [dl EXCEPT ![i] = "failed"]
          /\ pc' = [pc EXCEPT ![i] = AfterDownloadError]
          /\ UNCHANGED staging
       \/ /\ dl' = [dl EXCEPT ![i] = "failed"]
          /\ pc' = [pc EXCEPT ![i] = AfterDownloadReturn]
          /\ UNCHANGED staging
    /\ UNCHANGED <<evVars, idVars, legB, uploaded_files, msgs, hist>>

\* Lines 397-399: the download-complete edit (not guarded by a try/except);
\* the coroutine is suspended in that await.
Transition(i) ==
    /\ UNCHANGED outside
    /\ pc[i] = "downloaded"
    /\ Say(i, "dlcomplete")
    /\ pc' = [pc EXCEPT ![i] = "dlcompletesent"]
    /\ UNCHANGED <<evVars, idVars, staging, dl, legB, uploaded_files, hist>>

\* Lines 399-415 and 151-172: edit_text has returned or raised; on its
\* return upload_file is called.  os.path.getsize (line 152) raises
\* FileNotFoundError when no file is at the staging path, which is no
\* ClientError and leaves upload_file; with the file there the worker is
\* started and the loop is reached.
StartUpload(i) ==
    /\ UNCHANGED outside
    /\ pc[i] = "dlcompletesent"
    /\ \E ok \in BOOLEAN :
         IF ~ok
         THEN /\ pc' = [pc EXCEPT ![i] = "except"]
              /\ UNCHANGED <<wk, poll, upret>>
         ELSE IF staging[i] # "file"
         THEN /\ upret' = [upret EXCEPT ![i] = "raised"]
              /\ poll' = [poll EXCEPT ![i] = "returned"]
              /\ pc' = [pc EXCEPT ![i] = "except"]
              /\ UNCHANGED wk
         ELSE /\ wk' = [wk EXCEPT ![i] = "running"]
              /\ poll' = [poll EXCEPT ![i] = "check"]
              /\ pc' = [pc EXCEPT ![i] = "uploading"]
              /\ UNCHANGED upret
    /\ UNCHANGED <<evVars, idVars, staging, dl, sent, snap, lock, task_done,
                   uploaded_files, msgs, hist>>

\* ---- the upload leg: the worker thread ----

\* ProgressTracker.__call__ enters `with self.lock:`.
CallbackEnter(i) ==
    /\ UNCHANGED outside
    /\ pc[i] = "uploading"
    /\ wk[i] = "running"
    /\ sent[i] < MaxChunks
    /\ lock[i] = "free"
    /\ lock' = [lock EXCEPT ![i] = "worker"]
    /\ UNCHANGED <<pc, evVars, idVars, staging, dl, wk, sent, snap, poll,
                   task_done, upret, uploaded_files, msgs, hist>>

\* The body of ProgressTracker.__call__: the bytes are added, and the text
\* is rendered when the interval has elapsed (a matter of timing, chosen
\* here) or the transfer is complete; leaving the block frees the lock.
CallbackExit(i) ==
    /\ UNCHANGED outside
    /\ lock[i] = "worker"
    /\ sent' = [sent EXCEPT ![i] = @ + 1]
    /\ \E elapsed \in BOOLEAN :
         snap' = [snap EXCEPT ![i] =
                    IF elapsed \/ sent[i] + 1 >= MaxChunks
                    THEN sent[i] + 1 ELSE @]
    /\ lock' = [lock EXCEPT ![i] = "free"]
    /\ UNCHANGED <<pc, evVars, idVars, staging, dl, wk, poll, task_done,
                   upret, uploaded_files, msgs, hist>>

\* s3_client.upload_file returns, raises ClientError, or raises something
\* else (S3UploadFailedError, an OSError, ...).  It returns normally only
\* once every chunk has been reported.
WorkerFinish(i) ==
    /\ UNCHANGED outside
    /\ pc[i] = "uploading"
    /\ wk[i] = "running"
    /\ lock[i] # "worker"
    /\ \/ /\ sent[i] = MaxChunks
          /\ wk' = [wk EXCEPT ![i] = "ok"]
       \/ \E e \in {"clienterror", "error"} : wk' = [wk EXCEPT ![i] = e]
    /\ UNCHANGED <<pc, evVars, idVars, staging, dl, sent, snap, lock, poll,
                   task_done, upret, uploaded_files, msgs, hist>>

\* ---- the upload leg: the polling loop of upload_file ----

\* The future returned by run_in_executor (line 169) is completed by the
\* event loop, in a callback the finished thread has scheduled: it runs
\* after upload_sync has returned or raised, while the coroutine waits in
\* one of its awaits (the sleep or the edit of the loop).
FutureDone(i) ==
    /\ UNCHANGED outside
    /\ wk[i] \in {"ok", "clienterror", "error"}
    /\ ~task_done[i]
    /\ poll[i] \in {"sleep", "publish"}
    /\ task_done' = [task_done EXCEPT ![i] = TRUE]
    /\ UNCHANGED <<pc, evVars, idVars, staging, dl, wk, sent, snap, lock, poll,
                   upret, uploaded_files, msgs, hist>>

\* `while not upload_task.done():`
PollCheck(i) ==
    /\ UNCHANGED outside
    /\ poll[i] = "check"
    /\ poll' = [poll EXCEPT ![i] = IF task_done[i] THEN "join" ELSE "sleep"]
    /\ UNCHANGED <<pc, evVars, idVars, staging, dl, wk, sent, snap, lock,
                   task_done, upret, uploaded_files, msgs, hist>>

\* `await asyncio.sleep(1.5)` is over; get_progress enters `with self.lock:`.
PollWake(i) ==
    /\ UNCHANGED outside
    /\ poll[i] = "sleep"
    /\ lock[i] = "free"
    /\ lock' = [lock EXCEPT ![i] = "poller"]
    /\ poll' = [poll EXCEPT ![i] = "get"]
    /\ UNCHANGED <<pc, evVars, idVars, staging, dl, wk, sent, snap,
                   task_done, upret, uploaded_files, msgs, hist>>

\* The lock holder once get_progress has returned.
LockAfterGetHeld(i) == "poller"
LockAfterGet(i) == "free"

\* get_progress reads current_progress and leaves `with self.lock:` (lines
\* 87-89): the lock is free again and the loop thread holds the text it
\* read, or None, with which `if current_progress:` takes it back to the
\* test of the loop.
PollGet(i) ==
    /\ UNCHANGED outside
    /\ poll[i] = "get"
    /\ lock' = [lock EXCEPT ![i] = LockAfterGet(i)]
    /\ poll' = [poll EXCEPT ![i] = IF snap[i] # 0 THEN "send" ELSE "check"]
    /\ UNCHANGED <<pc, evVars, idVars, staging, dl, wk, sent, snap,
                   task_done, upret, uploaded_files, msgs, hist>>

\* Lines 176-178: the text read is passed to edit_text, whatever the
\* worker thread has done since the lock was released.
PollSend(i) ==
    /\ UNCHANGED outside
    /\ poll[i] = "send"
    /\ poll' = [poll EXCEPT ![i] = "publish"]
    /\ Say(i, "upprogress")
    /\ late' = [late EXCEPT ![i] = @ \/ wk[i] # "running"]
    /\ UNCHANGED <<pc, evVars, idVars, staging, dl, wk, sent, snap, lock,
                   task_done, upret, uploaded_files, finals>>

\* edit_text returns or raises; `except Exception: pass` swallows it.
PollPublished(i) ==
    /\ UNCHANGED outside
    /\ poll[i] = "publish"
    /\ \E ok \in BOOLEAN : poll' = [poll EXCEPT ![i] = "check"]
    /\ UNCHANGED <<pc, evVars, idVars, staging, dl, wk, sent, snap, lock,
                   task_done, upret, uploaded_files, msgs, hist>>

\* ---- the end of the upload leg and the handler's last steps ----

\* What upload_file hands to the handler: the URL after `await upload_task`,
\* None from `except ClientError`, and any other exception passes through.
UploadResult(w) ==
    CASE w = "ok" -> "url"
      [] w = "clienterror" -> "None"
      [] w = "error" -> "raised"

\* `if download_url:` -- the registry is written only for a URL.
InsertAlways(result) == TRUE
InsertAllowed(result) == result = "url"

\* The record stored at lines 419-426 (name, time and user left out).
Record(i) ==
    [object_key |-> file_id[i],
     download_url |-> <<"https", file_id[i]>>,
     file_size |-> ev[i].file_size]

\* self.uploaded_files[file_id] = {...}
Put(reg, id, rec) ==
    [k \in DOMAIN reg \cup {id} |-> IF k = id THEN rec ELSE reg[k]]

\* `await upload_task` and upload_file's return; on a URL the handler
\* writes the registry and asks for a presigned link (get_download_link
\* returns the link, returns None on ClientError, or raises) before its
\* next await.
Join(i) ==
    /\ UNCHANGED outside
    /\ poll[i] = "join"
    /\ poll' = [poll EXCEPT ![i] = "returned"]
    /\ upret' = [upret EXCEPT ![i] = UploadResult(wk[i])]
    /\ IF UploadResult(wk[i]) = "raised"
       THEN /\ pc' = [pc EXCEPT ![i] = "except"]
            /\ UNCHANGED uploaded_files
       ELSE IF InsertAllowed(UploadResult(wk[i]))
       THEN /\ uploaded_files' = Put(uploaded_files, file_id[i], Record(i))
            /\ \E link \in {"url", "None", "raised"} :
                 pc' = [pc EXCEPT ![i] =
                          IF link = "raised" THEN "except" ELSE "finalok"]
       ELSE /\ pc' = [pc EXCEPT ![i] = "finalfail"]
            /\ UNCHANGED uploaded_files
    /\ UNCHANGED <<evVars, idVars, staging, dl, wk, sent, snap, lock,
                   task_done, msgs, hist>>

\* Line 449: the success edit; the coroutine is suspended in that await
\* and the staged file is still on the disk.
FinalOk(i) ==
    /\ UNCHANGED outside
    /\ pc[i] = "finalok"
    /\ Say(i, "success")
    /\ CountFinal(i)
    /\ pc' = [pc EXCEPT ![i] = "successsent"]
    /\ UNCHANGED <<evVars, idVars, staging, dl, legB, uploaded_files, late>>

\* Lines 449-455: edit_text has returned or raised; on its return os.remove
\* runs inside try/except (a failed removal is ignored and leaves the
\* file).
RemoveStaged(i) ==
    /\ UNCHANGED outside
    /\ pc[i] = "successsent"
    /\ \/ /\ pc' = [pc EXCEPT ![i] = "done"]
          /\ \E removed \in BOOLEAN :
               staging' = [staging EXCEPT ![i] =
                             IF removed THEN "removed" ELSE @]
       \/ /\ pc' = [pc EXCEPT ![i] = "except"]
          /\ UNCHANGED staging
    /\ UNCHANGED <<evVars, idVars, dl, legB, uploaded_files, msgs, hist>>

\* Line 457: the failure edit after upload_file returned None.
FinalFail(i) ==
    /\ UNCHANGED outside
    /\ pc[i] = "finalfail"
    /\ Say(i, "uploadfailed")
    /\ CountFinal(i)
    /\ pc' = [pc EXCEPT ![i] = "failsent"]
    /\ UNCHANGED <<evVars, idVars, staging, dl, legB, uploaded_files, late>>

\* Lines 459-461: `except Exception` replies with the error text.
Except(i) ==
    /\ UNCHANGED outside
    /\ pc[i] = "except"
    /\ Say(i, "error")
    /\ CountFinal(i)
    /\ pc' = [pc EXCEPT ![i] = "errorsent"]
    /\ UNCHANGED <<evVars, idVars, staging, dl, legB, uploaded_files, late>>

\* The handler's last statement was a send (the two rejections at lines
\* 364 and 370, the failure edit at line 457, the error reply at line 461):
\* it returns, and the handler is over, or it raises; an exception of the
\* error reply leaves the handler, any other one reaches the except clause.
LastSendReturn(i) ==
    /\ UNCHANGED outside
    /\ pc[i] \in {"rejected", "failsent", "errorsent"}
    /\ \E ok \in BOOLEAN :
         pc' = [pc EXCEPT ![i] =
                  IF ok THEN "done"
                  ELSE IF pc[i] = "errorsent" THEN "crashed" ELSE "except"]
    /\ UNCHANGED <<evVars, idVars, staging, dl, legB, uploaded_files, msgs, hist>>

\* os.remove(path), and delete_object(Key=key): the entry is gone, an
\* absent one is no error.
Remove(files, path) == [k \in DOMAIN files \ {path} |-> files[k]]

\* An object key that was never written.
AbsentKey == <<"files", "absent">>

\* WasabiStorage.delete_file: delete_object removes the object (True is
\* returned), or raises ClientError and leaves it (False is returned).  No
\* handler and no route calls this coroutine; it is open to any holder of
\* the storage object, at any time and for any key.
DeleteFile(key) ==
    /\ \E ok \in BOOLEAN :
         bucket' = IF ok THEN Remove(bucket, key) ELSE bucket
    /\ UNCHANGED <<mainVars, uploaded_files, trackerVars, clock, throttleVars,
                   regVars, renderVars, disk>>

\* delete_file called for a stored object or for an absent one.
DeleteAny == \E key \in DOMAIN bucket \cup {AbsentKey} : DeleteFile(key)

Next ==
    \/ DeleteAny
    \/ \E i \in Invocations :
        \/ Arrive(i)
        \/ Acquire(i)
        \/ Guard(i)
        \/ StartDownload(i)
        \/ DlProgress(i)
        \/ DownloadReturn(i)
        \/ Transition(i)
        \/ StartUpload(i)
        \/ CallbackEnter(i)
        \/ CallbackExit(i)
        \/ WorkerFinish(i)
        \/ FutureDone(i)
        \/ PollCheck(i)
        \/ PollWake(i)
        \/ PollGet(i)
        \/ PollSend(i)
        \/ PollPublished(i)
        \/ Join(i)
        \/ FinalOk(i)
        \/ RemoveStaged(i)
        \/ FinalFail(i)
        \/ Except(i)
        \/ LastSendReturn(i)

Spec == Init /\ [][Next]_vars

\* ---- the properties ----

Terminated(i) == pc[i] \in {"done", "crashed"}

Registered(i) == file_id[i] # 0 /\ file_id[i] \in DOMAIN uploaded_files

UploadFailed(i) == wk[i] \in {"clienterror", "error"}

\* C1: a record is in the registry only if the upload leg of the invocation
\* that generated its id has returned success; while that upload is in
\* flight, and after it failed (None result or exception), the invocation
\* has no record.
RecordOnlyAfterUploadSuccess ==
    /\ \A id \in DOMAIN uploaded_files :
         \E i \in Invocations :
            file_id[i] = id /\ wk[i] = "ok" /\ upret[i] = "url"
    /\ \A i \in Invocations :
         (pc[i] = "uploading" \/ UploadFailed(i) \/ upret[i] \in {"None", "raised"})
            => ~Registered(i)

\* One invocation is registered while another one's upload has failed.
RecordAfterSuccessReached ==
    \E i, j \in Invocations :
        /\ Registered(i) /\ upret[i] = "url"
        /\ Terminated(j) /\ UploadFailed(j) /\ ~Registered(j)

\* C2: an invocation whose download leg failed never calls the upload (no
\* worker, no upload_file call that has returned or raised) and never
\* writes the registry.
DownloadFailureNeverUploads ==
    \A i \in Invocations :
        dl[i] = "failed" =>
            /\ wk[i] = "none"
            /\ poll[i] = "none"
            /\ upret[i] = "none"
            /\ ~Registered(i)

\* C3: an event whose declared size exceeds 4 GiB never acquires the rate
\* limiter.
OversizeBypassesRateLimiter ==
    \A i \in Invocations :
        (ev[i].has_file /\ ev[i].file_size > 4 * 1024 * 1024)
            => acquired[i] = 0

\* C4: past the guard, a file event has been answered with the size-limit
\* text exactly when its declared size is strictly above 4 GiB; such an
\* event causes no download, no upload, no staging path and no registry
\* write.
SizeLimitStrictlyAboveFourGiB ==
    \A i \in Invocations :
        pc[i] \notin {"idle", "throttle", "guard"} =>
            /\ "toolarge" \in msgs[i]
                 <=> (ev[i].has_file /\ ev[i].file_size > 4 * 1024 * 1024)
            /\ "toolarge" \in msgs[i] =>
                 /\ dl[i] = "none"
                 /\ wk[i] = "none"
                 /\ poll[i] = "none"
                 /\ staging[i] = "none"
                 /\ file_id[i] = 0
                 /\ msgs[i] \subseteq {"toolarge", "error"}

\* A file of exactly 4 GiB has been downloaded and a larger one rejected.
SizeLimitBoundaryReached ==
    \E i, j \in Invocations :
        /\ ev[i].file_size = 4 * 1024 * 1024 /\ dl[i] = "ok"
        /\ ev[j].file_size > 4 * 1024 * 1024 /\ pc[j] = "done"
        /\ "toolarge" \in msgs[j]

\* C5: when an invocation that allocated a staging path has terminated, the
\* staging file does not exist.
StagingRemovedAtTermination ==
    \A i \in Invocations :
        (Terminated(i) /\ staging[i] # "none") => staging[i] # "file"

\* C6: a failed publish changes nothing of the transfer: as when every
\* publish succeeds, an invocation whose download succeeded goes on to the
\* upload, and one whose upload returned None ends with the failure edit,
\* never with the error reply of the except clause.
PublishFailureNeverPropagates ==
    \A i \in Invocations :
        Terminated(i) =>
            /\ dl[i] = "ok" => wk[i] # "none"
            /\ upret[i] = "None" => "error" \notin msgs[i]

\* C7: no exception leaves the handler, and an invocation whose download or
\* upload leg failed has sent a failure text before it terminates.
NoExceptionEscapesHandler ==
    \A i \in Invocations :
        /\ pc[i] # "crashed"
        /\ (Terminated(i) /\ (dl[i] = "failed" \/ UploadFailed(i)))
              => msgs[i] \cap {"uploadfailed", "error"} # {}

\* C8: within an invocation the upload starts only after the download has
\* returned successfully, and the registry is written only after the upload
\* has returned success.
LegsStrictlyOrdered ==
    \A i \in Invocations :
        /\ (wk[i] # "none" \/ poll[i] # "none"
              \/ pc[i] \in {"uploading", "finalok", "finalfail"})
             => dl[i] = "ok"
        /\ dl[i] = "running" => (wk[i] = "none" /\ ~Registered(i))
        /\ wk[i] = "running" => ~Registered(i)
        /\ Registered(i) => (dl[i] = "ok" /\ wk[i] = "ok")

\* C9: once the upload worker has finished, no further leg-B snapshot is
\* forwarded to the publisher, and a single final publish follows.
NoSnapshotAfterWorkerFinished ==
    \A i \in Invocations : ~late[i] /\ finals[i] <= 1

\* s3_client.upload_file returns normally.
WorkerReturns(i) == WorkerFinish(i) /\ wk'[i] = "ok"

\* C10: the poller never holds the sampler lock across a publish, and while
\* a publish is pending (edit_text has not returned) no step of the running
\* worker waits for it: a progress callback that is due can enter the
\* tracker, a callback inside the tracker can leave it, and after the last
\* callback the transfer can return.
PublishNeverBlocksWorker ==
    \A i \in Invocations :
        poll[i] = "publish" =>
            /\ lock[i] # "poller"
            /\ (wk[i] = "running" /\ lock[i] # "worker" /\ sent[i] < MaxChunks)
                  => ENABLED CallbackEnter(i)
            /\ (wk[i] = "running" /\ lock[i] = "worker")
                  => ENABLED CallbackExit(i)
            /\ (wk[i] = "running" /\ lock[i] # "worker" /\ sent[i] = MaxChunks)
                  => ENABLED WorkerReturns(i)

\* C10 witness: the worker is inside the tracker, holding its lock for the
\* callback that follows the one whose text is being published, while
\* that publish has not returned.
WorkerInTrackerDuringPublishReached ==
    \E i \in Invocations :
        /\ poll[i] = "publish"
        /\ wk[i] = "running"
        /\ lock[i] = "worker"
        /\ snap[i] = sent[i]
        /\ sent[i] > 0

\* ======================================================================
\* The ProgressTracker on its own: callbacks from the upload-part threads,
\* get_progress from the polling routine, and the clock.
\* ======================================================================

\* `update_interval=1.5` seconds, in ticks of half a second.
UpdateInterval == 3

\* `length: int = 20`, the cells of the progress bar.
BarLength == 20

Deltas == 0 .. MaxDelta

\* ---- Python floats (IEEE 754 doubles), as the renderers use them ----
\*
\* A mantissa has 53 bits, more than an integer of the model holds: a
\* natural number of any size is a sequence of limbs of LimbBits bits each,
\* least significant first and without leading zeros (<< >> is 0).  A
\* positive double is a record [m, e] of such a number and an exponent,
\* standing for m * 2^e.

LimbBits == 13
Base == 2 ^ LimbBits

RECURSIVE Limbs(_)
Limbs(n) == IF n = 0 THEN << >> ELSE <<n % Base>> \o Limbs(n \div Base)

\* The value of a number that an integer of the model holds (below 2^31).
RECURSIVE IntOf(_)
IntOf(x) == IF x = << >> THEN 0 ELSE Head(x) + Base * IntOf(Tail(x))

\* Leading zero limbs dropped.
RECURSIVE Trim(_)
Trim(x) ==
    IF x # << >> /\ x[Len(x)] = 0
    THEN Trim(SubSeq(x, 1, Len(x) - 1))
    ELSE x

\* x * k + carry, for a small integer k.
RECURSIVE MulSmall(_, _, _)
MulSmall(x, k, carry) ==
    IF x = << >> THEN Limbs(carry)
    ELSE LET d == Head(x) * k + carry
         IN  <<d % Base>> \o MulSmall(Tail(x), k, d \div Base)

\* x >= y: the numbers are equal, or x is longer, or they are as long and
\* x has the larger limb where they first differ from the top.
Geq(x, y) ==
    \/ x = y
    \/ Len(x) > Len(y)
    \/ /\ Len(x) = Len(y)
       /\ \E k \in 1 .. Len(x) :
             /\ x[k] > y[k]
             /\ \A j \in (k + 1) .. Len(x) : x[j] = y[j]

\* x - y - borrow for x >= y, with the leading zero limbs it leaves.
RECURSIVE Sub(_, _, _)
Sub(x, y, borrow) ==
    IF x = << >> THEN << >>
    ELSE LET d == Head(x) - (IF y = << >> THEN 0 ELSE Head(y)) - borrow
         IN  <<(d + Base) % Base>>
                \o Sub(Tail(x), IF y = << >> THEN y ELSE Tail(y),
                       IF d < 0 THEN 1 ELSE 0)

\* The number of bits of a number: those of its top limb and LimbBits for
\* each limb below.
BitLen(x) ==
    IF x = << >> THEN 0
    ELSE LET top == x[Len(x)]
             width == CHOOSE w \in 1 .. LimbBits : top < 2 ^ w /\ top >= 2 ^ (w - 1)
         IN  LimbBits * (Len(x) - 1) + width

\* Bit number pos of x, the lowest being bit 0.
Bit(x, pos) ==
    IF pos \div LimbBits >= Len(x) THEN 0
    ELSE (x[pos \div LimbBits + 1] \div 2 ^ (pos % LimbBits)) % 2

\* x \div 2^n
ShiftRight(x, n) ==
    LET drop == n \div LimbBits
        r == n % LimbBits
        y == IF drop >= Len(x) THEN << >> ELSE SubSeq(x, drop + 1, Len(x))
    IN  Trim([i \in 1 .. Len(y) |->
                 y[i] \div 2 ^ r
                   + (IF i < Len(y) THEN (y[i + 1] % 2 ^ r) * 2 ^ (LimbBits - r)
                      ELSE 0)])

\* The integer nearest to x / 2^n (n > 0), or to a value just above it when
\* `more` says that something was cut off below x; a tie goes to the even
\* integer.
RoundShift(x, n, more) ==
    LET q == ShiftRight(x, n)
        rest == more \/ \E pos \in 0 .. (n - 2) : Bit(x, pos) = 1
        up == Bit(x, n - 1) = 1 /\ (rest \/ Bit(q, 0) = 1)
    IN  IF up THEN MulSmall(q, 1, 1) ELSE q

\* The double nearest to x * 2^e (or to a value just above it, see `more`):
\* 53 significant bits are kept.
Round53(x, e, more) ==
    LET n == BitLen(x) - 53 IN
    IF n <= 0 THEN [m |-> x, e |-> e]
    ELSE [m |-> RoundShift(x, n, more), e |-> e + n]

\* k more limbs of the quotient of a long division by the integer d
\* (d < 2^18), r being the remainder so far.
RECURSIVE FracLimbs(_, _, _)
FracLimbs(r, d, k) ==
    IF k = 0 THEN [q |-> << >>, r |-> r]
    ELSE LET rest == FracLimbs((r * Base) % d, d, k - 1)
         IN  [q |-> Append(rest.q, (r * Base) \div d), r |-> rest.r]

\* a / d for integers a > 0 and d > 0 (the true division of two ints, or of
\* two floats that hold such integers): the quotient is carried to more
\* than 53 bits and rounded.
FlDiv(a, d) ==
    LET k == 5 + Len(Limbs(d))
        frac == FracLimbs(a % d, d, k)
    IN  Round53(Trim(frac.q \o Limbs(a \div d)), 0 - LimbBits * k, frac.r # 0)

\* x * k for a double x and a small integer k.
FlMul(x, k) == Round53(MulSmall(x.m, k, 0), x.e, FALSE)

\* `steps` more bits of the quotient of a long division by the number d,
\* or fewer when the division comes out even: st holds the quotient so
\* far, the number of its bits after the point, and the remainder.  A bit
\* is 1 when the doubled remainder holds the divisor; the first half of
\* the steps is taken before the second.
RECURSIVE DivBits(_, _, _)
DivBits(st, d, steps) ==
    IF steps = 0 \/ st.r = << >> THEN st
    ELSE IF steps = 1
    THEN LET r2 == MulSmall(st.r, 2, 0)
             ge == Geq(r2, d)
         IN  [q |-> MulSmall(st.q, 2, IF ge THEN 1 ELSE 0),
              bits |-> st.bits + 1,
              r |-> IF ge THEN Trim(Sub(r2, d, 0)) ELSE r2]
    ELSE DivBits(DivBits(st, d, steps \div 2), d, steps - steps \div 2)

\* n / x for an integer n > 0 and a double x > n: the quotient is carried
\* to 55 bits or more, unless it comes out even before, and rounded.
FlDivBy(n, x) ==
    LET s == 55 + BitLen(x.m) - BitLen(Limbs(n))
        res == DivBits([q |-> << >>, bits |-> 0, r |-> Limbs(n)], x.m, s)
    IN  Round53(res.q, 0 - res.bits - x.e, res.r # << >>)

\* int(x) for a double x below 2^31: the integer part.
FloorOf(x) ==
    IF x.e >= 0 THEN IntOf(x.m) * 2 ^ x.e
    ELSE IntOf(ShiftRight(x.m, 0 - x.e))

\* The integer nearest to x * k, a tie going to the even one: the digits
\* that f"{x:.1f}" (k = 10) and f"{x:.2f}" (k = 100) print, which are the
\* correctly rounded decimal digits of the double's exact value.
Nearest(x, k) ==
    IF x.e >= 0 THEN IntOf(MulSmall(x.m, k, 0)) * 2 ^ x.e
    ELSE IntOf(RoundShift(MulSmall(x.m, k, 0), 0 - x.e, FALSE))

\* f"{percentage:.1f}" with percentage = (bytes / total) * 100, in tenths of
\* a percent.  The double is off 100 * b / t by far less than the distance
\* of that quotient to the nearest boundary between two tenths, unless the
\* quotient lies on such a boundary: there the double decides, computed as
\* the code computes it (a division, then a multiplication).
PctTenths(b, t) ==
    LET q == (1000 * b) \div t
        r == (1000 * b) % t
    IN  IF 2 * r = t THEN Nearest(FlMul(FlDiv(b, t), 100), 10)
        ELSE IF 2 * r > t THEN q + 1 ELSE q

\* _create_progress_bar: filled = int(percentage / 100 * length).
Filled(b, t) == (b * BarLength) \div t

\* "░" * (length - filled): a count below one gives no cell.
EmptyCells(b, t) ==
    IF BarLength - Filled(b, t) > 0 THEN BarLength - Filled(b, t) ELSE 0

\* The text built at lines 55-81: the percentage and the bar come from one
\* read of bytes_transferred (line 55), the size shown from a later one
\* (line 78).  Speed and ETA are left out.
Render(pb, sb, total) ==
    [pct |-> PctTenths(pb, total),
     filled |-> Filled(pb, total),
     empty |-> EmptyCells(pb, total),
     size |-> sb,
     of |-> total]

\* `if (current_time - self.last_update_time > self.update_interval or
\*      self.bytes_transferred >= self.total_size):`
ShouldRenderAtInterval(gap, bytes, total) ==
    gap >= UpdateInterval \/ bytes >= total
ShouldRenderIntervalOnly(gap, bytes, total) ==
    gap > UpdateInterval
ShouldRender(gap, bytes, total) ==
    gap > UpdateInterval \/ bytes >= total

\* `with self.lock:` lets a thread in when nobody holds the lock.
CanEnterUnlocked(l) == TRUE
CanEnter(l) == l = "free"

trackerFrame == <<mainVars, uploaded_files, throttleVars, regVars, renderVars,
                  storeVars>>

\* __call__(bytes_amount) enters `with self.lock:`.
OnBytesEnter(t) ==
    /\ calls[t].pc = "idle"
    /\ CanEnter(tracker_lock)
    /\ \E d \in Deltas :
         /\ delivered + d <= MaxTotal + 1
         /\ delivered' = delivered + d
         /\ calls' = [calls EXCEPT ![t] = [NoCall EXCEPT !.pc = "locked", !.delta = d]]
    /\ tracker_lock' = t
    /\ UNCHANGED <<total_size, bytes_transferred, last_update_time,
                   current_progress, reader, seen, last_call, clock>>
    /\ UNCHANGED trackerFrame

\* `self.bytes_transferred += bytes_amount`, first half: the load.
OnBytesLoad(t) ==
    /\ calls[t].pc = "locked"
    /\ calls' = [calls EXCEPT ![t].pc = "loaded", ![t].tmp = bytes_transferred]
    /\ UNCHANGED <<total_size, bytes_transferred, last_update_time,
                   current_progress, tracker_lock, reader, seen, delivered,
                   last_call, clock>>
    /\ UNCHANGED trackerFrame

\* Second half: the store; then the clock is read and the condition of
\* line 52 decides between rendering and leaving the block at once.
OnBytesStore(t) ==
    /\ calls[t].pc = "loaded"
    /\ bytes_transferred' = calls[t].tmp + calls[t].delta
    /\ IF ShouldRender(clock - last_update_time, bytes_transferred', total_size)
       THEN /\ calls' = [calls EXCEPT ![t].pc = "rendering", ![t].now = clock,
                                      ![t].pctb = bytes_transferred']
            /\ UNCHANGED <<tracker_lock, last_call>>
       ELSE /\ calls' = [calls EXCEPT ![t] = NoCall]
            /\ tracker_lock' = "free"
            /\ last_call' = <<[overwrote |-> FALSE,
                               gap |-> clock - last_update_time,
                               complete |-> bytes_transferred' >= total_size]>>
    /\ UNCHANGED <<total_size, last_update_time, current_progress, reader,
                   seen, delivered, clock>>
    /\ UNCHANGED trackerFrame

\* Lines 74-85: the text is built and stored with the time of the call,
\* and the block is left.
OnBytesRender(t) ==
    /\ calls[t].pc = "rendering"
    /\ current_progress' =
          <<Render(calls[t].pctb, bytes_transferred, total_size)>>
    /\ last_update_time' = calls[t].now
    /\ last_call' = <<[overwrote |-> TRUE,
                       gap |-> calls[t].now - last_update_time,
                       complete |-> calls[t].pctb >= total_size]>>
    /\ calls' = [calls EXCEPT ![t] = NoCall]
    /\ tracker_lock' = "free"
    /\ UNCHANGED <<total_size, bytes_transferred, reader, seen, delivered, clock>>
    /\ UNCHANGED trackerFrame

\* get_progress enters `with self.lock:`.
GetProgressEnter ==
    /\ reader = "idle"
    /\ CanEnter(tracker_lock)
    /\ reader' = "locked"
    /\ tracker_lock' = "reader"
    /\ UNCHANGED <<total_size, bytes_transferred, last_update_time,
                   current_progress, calls, seen, delivered, last_call, clock>>
    /\ UNCHANGED trackerFrame

\* `return self.current_progress`
GetProgressReturn ==
    /\ reader = "locked"
    /\ seen' = current_progress
    /\ reader' = "idle"
    /\ tracker_lock' = "free"
    /\ UNCHANGED <<total_size, bytes_transferred, last_update_time,
                   current_progress, calls, delivered, last_call, clock>>
    /\ UNCHANGED trackerFrame

\* Half a second passes.
Tick ==
    /\ clock < ClockStart + MaxElapsed
    /\ clock' = clock + 1
    /\ UNCHANGED <<trackerVars, trackerFrame>>

TrackerSpecInit ==
    /\ HandlersInit
    /\ \E size \in 1 .. MaxTotal : TrackerInit(size)
    /\ clock = ClockStart
    /\ ThrottlerInit
    /\ ReadersInit
    /\ RenderersInit
    /\ StorageInit

TrackerNext ==
    \/ \E t \in Threads :
          \/ OnBytesEnter(t)
          \/ OnBytesLoad(t)
          \/ OnBytesStore(t)
          \/ OnBytesRender(t)
    \/ GetProgressEnter
    \/ GetProgressReturn
    \/ Tick

TrackerSpec == TrackerSpecInit /\ [][TrackerNext]_vars

\* No thread is inside __call__.
AllReturned == \A t \in Threads : calls[t].pc = "idle"

\* C11: when the calls made so far have all returned and their deltas (none
\* negative) sum to total_size, the snapshot is a rendered text that shows
\* exactly 100.0%, whatever the clock did between the calls.
FinalSnapshotHundredPercent ==
    (AllReturned /\ delivered = total_size) =>
        /\ current_progress # << >>
        /\ current_progress[1].pct = 1000
        /\ current_progress[1].filled = 20
        /\ current_progress[1].size = total_size

\* The last of several calls completed the transfer in the same tick as
\* the render before it: only completion made it render.
CompletionRenderReached ==
    /\ AllReturned
    /\ delivered = total_size
    /\ total_size = 2
    /\ last_call = <<[overwrote |-> TRUE, gap |-> 0, complete |-> TRUE]>>

\* A text all of whose parts come from one value of bytes_transferred.
WholeText(text) ==
    /\ text.of = total_size
    /\ text.pct = PctTenths(text.size, text.of)
    /\ text.filled = Filled(text.size, text.of)

\* C12: with callbacks from several threads and get_progress in between,
\* no update is lost (once all calls have returned, bytes_transferred is
\* the sum of the deltas delivered) and every snapshot, stored or read, is
\* None or one whole rendered text.
NoLostUpdateNoTornSnapshot ==
    /\ AllReturned => bytes_transferred = delivered
    /\ current_progress = << >> \/ WholeText(current_progress[1])
    /\ seen = << >> \/ WholeText(seen[1])
    /\ Cardinality({t \in Threads : calls[t].pc # "idle"}) <= 1
    /\ reader = "locked" => AllReturned

\* get_progress returned an earlier text while both threads have delivered
\* bytes and one of them is rendering the next text.
SnapshotBetweenCallsReached ==
    /\ seen # << >>
    /\ reader = "idle"
    /\ delivered = 2
    /\ seen[1].size = 1
    /\ \E t \in Threads : calls[t].pc = "rendering" /\ calls[t].delta = 1

\* C13: after each call bytes_transferred is at least its previous value
\* and at most total_size.
TransferredMonotoneAndBounded ==
    [][/\ bytes_transferred' >= bytes_transferred
       /\ bytes_transferred' <= total_size']_vars

\* C14 as claimed: a call overwrites the text and the sample time exactly
\* when the gap since the last sample has reached the interval, or the
\* transfer is complete.
OverwriteWhenIntervalReached ==
    last_call # << >> =>
        (last_call[1].overwrote
            <=> (last_call[1].gap >= 3 \/ last_call[1].complete))

\* C14 as amended: a call overwrites the text and the sample time exactly
\* when the gap since the last sample exceeds the interval (1.5 s = 3
\* ticks), or the transfer is complete; so below completion two overwrites
\* are more than one interval apart, and the time stored is never ahead of
\* the clock.
OverwriteWhenIntervalExceeded ==
    /\ last_call # << >> =>
         /\ last_call[1].overwrote
               <=> (last_call[1].gap > 3 \/ last_call[1].complete)
         /\ (last_call[1].overwrote /\ ~last_call[1].complete)
               => last_call[1].gap > 3
    /\ last_update_time <= clock
    /\ (last_update_time = 0) <=> (current_progress = << >>)

\* A call made exactly one interval after the last sample, below
\* completion, left the text alone.
CallAtExactIntervalReached ==
    last_call = <<[overwrote |-> FALSE, gap |-> 3, complete |-> FALSE]>>


\* ======================================================================
\* The rate limiter in front of the file handler: callers arrive at any
\* time and in any number, each runs acquire() until it is admitted.
\* ======================================================================

\* `Throttler(rate_limit=10, period=1)`: the rate ...
RateLimit == 10

\* ... and the period, one second, in ticks of half a second.
Period == 2

\* Throttler.flush(): drop from the left the admissions older than one
\* period (`now - self._task_logs[0] > self.period`).
RECURSIVE Flush(_, _)
Flush(logs, now) ==
    IF logs # << >> /\ now - Head(logs) > Period
    THEN Flush(Tail(logs), now)
    ELSE logs

throttleFrame == <<mainVars, uploaded_files, trackerVars, regVars, renderVars,
                   storeVars>>

\* An acquire() that would admit one caller more than the rate.
ThrottleAdmitFull ==
    /\ Len(Flush(task_logs, clock)) <= RateLimit
    /\ task_logs' = Append(Flush(task_logs, clock), clock)
    /\ admitted' = Append(admitted, clock)
    /\ UNCHANGED <<clock, throttleFrame>>

\* `async with self.throttler:` -- one round of acquire() that ends the
\* loop: after the flush fewer than rate_limit admissions are logged, the
\* caller logs the time and enters the handler body.
ThrottleAdmit ==
    /\ Len(Flush(task_logs, clock)) < RateLimit
    /\ task_logs' = Append(Flush(task_logs, clock), clock)
    /\ admitted' = Append(admitted, clock)
    /\ UNCHANGED <<clock, throttleFrame>>

\* One round of acquire() that does not end the loop: the log is full, the
\* caller sleeps for retry_interval and tries again.
ThrottleSleep ==
    /\ Len(Flush(task_logs, clock)) >= RateLimit
    /\ task_logs' = Flush(task_logs, clock)
    /\ UNCHANGED <<admitted, clock, throttleFrame>>

ThrottleNext ==
    \/ ThrottleAdmit
    \/ ThrottleSleep
    \/ Tick

ThrottleSpec == Init /\ [][ThrottleNext]_vars

\* The admissions whose time lies in the window of one period ending at t.
AdmittedInWindow(t) ==
    Cardinality({k \in DOMAIN admitted :
                    admitted[k] >= t - Period /\ admitted[k] <= t})

\* C15: whatever the arrival pattern, at most 10 invocations are admitted
\* past the rate limiter in any trailing window of one period (1 s).
AtMostTenPerTrailingPeriod ==
    \A t \in ClockStart .. clock : AdmittedInWindow(t) <= 10

\* C15 witness: a window holds the full 10 admissions and a caller that
\* found the limiter full has been admitted after the window moved on.
LimiterSaturatedThenReopened ==
    /\ Len(admitted) > 10
    /\ \E t \in ClockStart .. clock : AdmittedInWindow(t) = 10
    /\ clock - Head(admitted) > Period


\* ======================================================================
\* The registry and its readers: successful uploads insert records, the
\* /list and /download handlers run on the event loop, and the Flask
\* routes /api/files, /stream/<id> and /health run on the HTTP thread.
\* ======================================================================

Users == {"u1", "u2"}

\* The uploads that arrive during one run.
MaxUploads == 2

\* How far the clock advances while the registry is filled and read.
MaxRegistryElapsed == 1

\* The length of a day in ticks, shortened to the scale of the run;
\* isoformat()[:10] is the date of a time.
DayTicks == 12
Date(ts) == ts \div DayTicks

\* `files_data[:20]`
ApiLimit == 20

\* The outcomes of get_download_link: the link, None on ClientError, or
\* another exception passing through.
PresignOutcomes == {"link", "None", "raised"}

\* The ids a /download or /stream request may name: the registered ones
\* and one that is never registered.
RequestIds == 1 .. (MaxUploads + 1)

\* `file_id = str(uuid.uuid4())`: a value no earlier call returned.
StaleId == IF nextId > 1 THEN nextId - 1 ELSE nextId
FreshId == nextId

\* The dict stored at lines 419-426 for an upload of user u at time now.
FullRecord(id, u, now) ==
    [original_name |-> <<"file", id>>,
     object_key |-> <<"files", u, id>>,
     download_url |-> <<"https", id>>,
     file_size |-> 1,
     upload_time |-> now,
     user_id |-> u]

\* The order of the keys of a dict after `d[id] = value`: a new key goes
\* last, an existing key keeps its place.
KeysAfterPut(keys, reg, id) ==
    IF id \in DOMAIN reg THEN keys ELSE Append(keys, id)

handlerRest == <<pc, ev, acquired, file_id, staging, dl, wk, sent, snap,
                 lock, poll, task_done, upret, msgs, late, finals>>
readerFrame == <<handlerRest, trackerVars, throttleVars, renderVars,
                 storeVars>>

\* `expires_in=86400` of the handlers, `expires_in=3600` of /stream.
LinkExpiry == 86400
StreamExpiry == 3600

\* generate_presigned_url: a URL signed for the key, the expiry and the
\* time of the call.
Presign(key, expires, now) == <<"presigned", key, expires, now>>

\* No URL: None, or nothing was asked for.
NoUrl == << >>

\* What a caller holds after get_download_link for a record: the URL of
\* this call, or None.
LinkFor(rec, expires, link) ==
    IF link = "link" THEN Presign(rec.object_key, expires, clock) ELSE NoUrl

\* A file message of user u reaches handle_file_upload, which draws its
\* id (line 374) and is suspended in its first await (line 379); the
\* other handlers and the routes run while it downloads and uploads.
UploadBegins(u) ==
    /\ nextId <= MaxUploads
    /\ drawn' = Put(drawn, FreshId, u)
    /\ nextId' = nextId + 1
    /\ UNCHANGED <<uploaded_files, order, reply, api, clock, dlcmd, readerFrame>>

\* upload_file has returned the URL to the invocation that drew the id:
\* the insert of lines 419-426, the presigned link of line 429 and the
\* message that follows (the success text, or the reply of `except
\* Exception`).  An invocation whose download or upload fails takes no
\* step here: its id stays unregistered.
UploadRegistered(id) ==
    /\ id \in DOMAIN drawn
    /\ LET rec == FullRecord(id, drawn[id], clock) IN
         /\ uploaded_files' = Put(uploaded_files, id, rec)
         /\ order' = KeysAfterPut(order, uploaded_files, id)
         /\ \E link \in PresignOutcomes :
               reply' = [op |-> "upload", id |-> id, link |-> link,
                         calls |-> 1,
                         url |-> LinkFor(rec, LinkExpiry, link)]
    /\ drawn' = Remove(drawn, id)
    /\ UNCHANGED <<nextId, api, clock, dlcmd, readerFrame>>

\* `if f['user_id'] == message.from_user.id`
OwnedByAnyone(rec, u) == TRUE
OwnedBy(rec, u) == rec.user_id = u

\* handle_list_files: the records of the requester, in the order of the
\* dict; "No files uploaded yet" when there is none.
ListFiles(u) ==
    /\ LET user_files ==
             SelectSeq(order, LAMBDA id : OwnedBy(uploaded_files[id], u))
       IN reply' = [op |-> "list", user |-> u, from |-> Len(order),
                    empty |-> (user_files = << >>), files |-> user_files]
    /\ UNCHANGED <<uploaded_files, order, nextId, api, clock, drawn, dlcmd, readerFrame>>

\* What a lookup by id followed by get_download_link yields.
Lookup(id, link) ==
    IF id \notin DOMAIN uploaded_files THEN "not found"
    ELSE CASE link = "link" -> "link"
           [] link = "None" -> "no link"
           [] link = "raised" -> "error"

\* The calls of get_download_link a lookup makes: none when the id is
\* unknown (the handler has returned before).
PresignCalls(id) == IF id \in DOMAIN uploaded_files THEN 1 ELSE 0

\* The URL a lookup ends with.
LookupUrl(id, expires, link) ==
    IF id \in DOMAIN uploaded_files
    THEN LinkFor(uploaded_files[id], expires, link)
    ELSE NoUrl

\* The outcomes of a lookup's presign call; no call is made for an unknown
\* id.
OutcomesFor(id) ==
    IF id \in DOMAIN uploaded_files THEN PresignOutcomes ELSE {"not called"}

\* `/download` without an id: command_parts has a single element.
NoArg == 0

\* The text handle_download_command passes to reply_text first.  Without
\* message.text (the command came as the caption of a media message)
\* `message.text.split()` raises and the text is the one of the except
\* clause (526-528); else the usage text (489-491), the not-found text
\* (493-496), the link text (508-522), the failure text for None (524), or,
\* when get_download_link raised, the text of the except clause.
FirstText(arg, text, link) ==
    IF ~text THEN "error"
    ELSE IF arg = NoArg THEN "usage"
    ELSE Lookup(arg, link)

\* handle_download_command up to its first reply_text, where it is
\* suspended: the lookup and the presign call, which run without a
\* suspension in between.  arg is the id the message carries, text whether
\* it is in message.text, raises whether this reply_text is going to raise.
\* A reply_text that returns ends the handler and changes nothing; one that
\* raises leaves the handler suspended until the exception arrives; the
\* model keeps one such handler at a time.  An exception of the reply in
\* the except clause leaves the handler and changes nothing either.
DownloadCommand(arg, text, raises) ==
    /\ raises => dlcmd = << >>
    /\ \E link \in (IF text THEN OutcomesFor(arg) ELSE {"not called"}) :
          LET first == FirstText(arg, text, link)
              answer == [op |-> "download", id |-> arg, link |-> link,
                         texts |-> <<first>>, result |-> first,
                         calls |-> IF text THEN PresignCalls(arg) ELSE 0,
                         url |-> IF text THEN LookupUrl(arg, LinkExpiry, link)
                                 ELSE NoUrl]
          IN  /\ raises => first # "error"
              /\ reply' = answer
              /\ dlcmd' = IF raises THEN <<answer>> ELSE dlcmd
    /\ UNCHANGED <<uploaded_files, order, nextId, api, clock, drawn, readerFrame>>

\* The reply_text in which a /download handler is suspended raises:
\* `except Exception` (526-528) passes the error text, with whatever the
\* other handlers and routes have done in between.
DownloadReplyRaises ==
    /\ dlcmd # << >>
    /\ reply' = [dlcmd[1] EXCEPT !.texts = Append(@, "error"),
                                 !.result = "error"]
    /\ dlcmd' = << >>
    /\ UNCHANGED <<uploaded_files, order, nextId, api, clock, drawn, readerFrame>>

\* One element of files_data (the name and size texts are left out).
ApiEntry(id) ==
    [id |-> id,
     date |-> Date(uploaded_files[id].upload_time),
     streaming_url |-> uploaded_files[id].download_url]

\* files_data.sort(key=lambda x: x['date'], reverse=True): a stable sort,
\* elements of equal date keep their order.
RECURSIVE InsertByDate(_, _)
InsertByDate(sorted, x) ==
    IF sorted = << >> THEN <<x>>
    ELSE IF Head(sorted).date >= x.date
         THEN <<Head(sorted)>> \o InsertByDate(Tail(sorted), x)
         ELSE <<x>> \o sorted

RECURSIVE SortByDate(_)
SortByDate(s) ==
    IF s = << >> THEN << >>
    ELSE InsertByDate(SortByDate(SubSeq(s, 1, Len(s) - 1)), s[Len(s)])

\* s[:n]
Take(s, n) == SubSeq(s, 1, IF Len(s) < n THEN Len(s) ELSE n)

\* GET /api/files, `for ... in self.bot.uploaded_files.items()`: the
\* iterator notes the size of the dict.
ApiFilesBegin ==
    /\ api.pc = "idle"
    /\ api' = [pc |-> "iter", used |-> Len(order), pos |-> 0,
               files_data |-> << >>]
    /\ UNCHANGED <<uploaded_files, order, nextId, reply, clock, drawn, dlcmd, readerFrame>>

\* The iterator yields the next item and the loop body appends its entry.
ApiFilesItem ==
    /\ api.pc = "iter"
    /\ api.used = Len(order)
    /\ api.pos < Len(order)
    /\ api' = [api EXCEPT !.pos = @ + 1,
                          !.files_data = Append(@, ApiEntry(order[api.pos + 1]))]
    /\ UNCHANGED <<uploaded_files, order, nextId, reply, clock, drawn, dlcmd, readerFrame>>

\* The iterator finds the size of the dict changed: RuntimeError
\* ("dictionary changed size during iteration"), which `except Exception`
\* turns into the error answer.
ApiFilesRaise ==
    /\ api.pc = "iter"
    /\ api.used # Len(order)
    /\ reply' = [op |-> "api", status |-> "error", from |-> api.used,
                 files |-> << >>]
    /\ api' = NoRequest
    /\ UNCHANGED <<uploaded_files, order, nextId, clock, drawn, dlcmd, readerFrame>>

\* The iterator is exhausted: sort, cut and answer.
ApiFilesReturn ==
    /\ api.pc = "iter"
    /\ api.used = Len(order)
    /\ api.pos = Len(order)
    /\ reply' = [op |-> "api", status |-> "success", from |-> api.used,
                 files |-> Take(SortByDate(api.files_data), ApiLimit)]
    /\ api' = NoRequest
    /\ UNCHANGED <<uploaded_files, order, nextId, clock, drawn, dlcmd, readerFrame>>

\* The answer of /stream: `"File not found", 404`, `redirect(...)`, or 500
\* for None and for an exception.
StreamStatusRedirectsNone(result) ==
    CASE result = "not found" -> 404
      [] result \in {"link", "no link"} -> 302
      [] OTHER -> 500
StreamStatus(result) ==
    CASE result = "not found" -> 404
      [] result = "link" -> 302
      [] OTHER -> 500

\* GET /stream/<file_id>
StreamFile(id) ==
    /\ \E link \in OutcomesFor(id) :
          reply' = [op |-> "stream", id |-> id, result |-> Lookup(id, link),
                    status |-> StreamStatus(Lookup(id, link)),
                    calls |-> PresignCalls(id),
                    url |-> LookupUrl(id, StreamExpiry, link)]
    /\ UNCHANGED <<uploaded_files, order, nextId, api, clock, drawn, dlcmd, readerFrame>>

\* GET /health
Health ==
    /\ reply' = [op |-> "health",
                 files_count |-> Cardinality(DOMAIN uploaded_files)]
    /\ UNCHANGED <<uploaded_files, order, nextId, api, clock, drawn, dlcmd, readerFrame>>

\* Time passes between two steps of the handlers and routes.
RegistryTick ==
    /\ clock < ClockStart + MaxRegistryElapsed
    /\ clock' = clock + 1
    /\ UNCHANGED <<uploaded_files, order, nextId, reply, api, drawn, dlcmd, readerFrame>>

RegistryNext ==
    \/ \E u \in Users : UploadBegins(u)
    \/ \E id \in DOMAIN drawn : UploadRegistered(id)
    \/ \E u \in Users : ListFiles(u)
    \/ \E arg \in {NoArg} \cup RequestIds, text, raises \in BOOLEAN :
          DownloadCommand(arg, text, raises)
    \/ DownloadReplyRaises
    \/ ApiFilesBegin
    \/ ApiFilesItem
    \/ ApiFilesRaise
    \/ ApiFilesReturn
    \/ \E id \in RequestIds : StreamFile(id)
    \/ Health
    \/ RegistryTick

RegistrySpec == Init /\ [][RegistryNext]_vars

\* The first n keys of the registry: its content when it held n records.
Prefix(n) == SubSeq(order, 1, n)

\* What /api/files answers when it runs alone on the registry of keys.
ApiAnswer(keys) ==
    Take(SortByDate([k \in DOMAIN keys |-> ApiEntry(keys[k])]), ApiLimit)

\* C16: a /api/files read that overlaps an insert completes successfully
\* with the answer for the registry as it was before or after an insert;
\* it never fails because of the insert.
ConcurrentReadSucceeds ==
    reply.op = "api" =>
        /\ reply.status = "success"
        /\ \E n \in reply.from .. Len(order) :
              reply.files = ApiAnswer(Prefix(n))

\* C17: a registered id maps to the same record in every later state,
\* whatever runs (uploads, /list, /download, /api/files, /stream, /health,
\* failing presigns), and every registering invocation adds a new id.
RegisteredRecordsNeverChange ==
    [][/\ \A id \in DOMAIN uploaded_files :
             /\ id \in DOMAIN uploaded_files'
             /\ uploaded_files'[id] = uploaded_files[id]
       /\ (reply' # reply /\ reply'.op = "upload") =>
             /\ reply'.id \notin DOMAIN uploaded_files
             /\ DOMAIN uploaded_files' = DOMAIN uploaded_files \cup {reply'.id}]_vars

\* C17 witness: the registry is full of records of two users, and a
\* /download whose presign failed has run on it.
ReadersRanOverSharedRegistry ==
    /\ Len(order) = MaxUploads
    /\ \E j, k \in DOMAIN order :
          uploaded_files[order[j]].user_id # uploaded_files[order[k]].user_id
    /\ reply.op = "download"
    /\ reply.result = "no link"

\* The creation time of a registered record.
Created(id) == uploaded_files[id].upload_time

\* C19: /api/files returns min(20, n) records, the ones created last,
\* ordered by creation time descending.
ApiFilesLatestFirst ==
    (reply.op = "api" /\ reply.status = "success") =>
        LET f == reply.files
            n == reply.from
            ids == {f[k].id : k \in DOMAIN f}
        IN /\ Len(f) = IF n < 20 THEN n ELSE 20
           /\ \A j, k \in DOMAIN f :
                 j < k => Created(f[j].id) >= Created(f[k].id)
           /\ \A k \in 1 .. n :
                 order[k] \notin ids =>
                    \A id \in ids : Created(id) >= Created(order[k])

\* /list with what it reads: the uploads that fill the registry, in any
\* order of their ids, and the clock.  handle_list_files has built its
\* answer before its only await (lines 465-481).
ListNext ==
    \/ \E u \in Users : UploadBegins(u)
    \/ \E id \in DOMAIN drawn : UploadRegistered(id)
    \/ \E u \in Users : ListFiles(u)
    \/ RegistryTick

ListSpec == Init /\ [][ListNext]_vars

\* The place of a key in the registry.
Pos(id) == CHOOSE k \in DOMAIN order : order[k] = id

\* C20: /list returns exactly the records of the requester, each once, in
\* the order of their insertion; never a record of another owner.
ListReturnsOwnRecordsInInsertionOrder ==
    reply.op = "list" =>
        LET f == reply.files IN
        /\ {f[k] : k \in DOMAIN f} =
              {order[k] : k \in {m \in 1 .. reply.from :
                                   uploaded_files[order[m]].user_id = reply.user}}
        /\ \A j, k \in DOMAIN f : j < k => Pos(f[j]) < Pos(f[k])
        /\ reply.empty = (f = << >>)

\* C20 witness: the requester's record is listed and the record of another
\* owner is left out, which precedes it in the registry although its id was
\* drawn later.
ListSkipsForeignRecordReached ==
    /\ reply.op = "list"
    /\ reply.files # << >>
    /\ \E m \in DOMAIN order :
          /\ m < Pos(reply.files[1])
          /\ order[m] > reply.files[1]
          /\ uploaded_files[order[m]].user_id # reply.user


\* ======================================================================
\* The registry's insert on its own, applied to any id: the store of
\* lines 419-426 when uuid4 is not assumed to be fresh.
\* ======================================================================

\* `self.uploaded_files[file_id] = {...}` for the id and the user given;
\* the statement raises nothing. The answer keeps the registry as it was.
PutAny(id, u) ==
    /\ uploaded_files' = Put(uploaded_files, id, FullRecord(id, u, clock))
    /\ order' = KeysAfterPut(order, uploaded_files, id)
    /\ reply' = [op |-> "put", id |-> id,
                 existed |-> (id \in DOMAIN uploaded_files),
                 error |-> "none",
                 before |-> uploaded_files]
    /\ UNCHANGED <<nextId, api, clock, drawn, dlcmd, readerFrame>>

PutNext ==
    \/ \E id \in 1 .. MaxUploads, u \in Users : PutAny(id, u)
    \/ RegistryTick

PutSpec == Init /\ [][PutNext]_vars

\* C18: an insert under an id that is already registered fails with a
\* duplicate-id error and leaves the registry as it was.
DuplicateInsertRejected ==
    (reply.op = "put" /\ reply.existed) =>
        /\ reply.error = "DuplicateId"
        /\ uploaded_files = reply.before


\* ======================================================================
\* The operations that ask the backend for a presigned link: upload
\* completion, /download and /stream, with the clock.
\* ======================================================================

LinkNext ==
    \/ \E u \in Users : UploadBegins(u)
    \/ \E id \in DOMAIN drawn : UploadRegistered(id)
    \/ \E arg \in {NoArg} \cup RequestIds, text, raises \in BOOLEAN :
          DownloadCommand(arg, text, raises)
    \/ DownloadReplyRaises
    \/ \E id \in RequestIds : StreamFile(id)
    \/ RegistryTick

LinkSpec == Init /\ [][LinkNext]_vars

\* C21: /stream answers 404 exactly for an id that is not registered, and
\* then without a presign call; for a registered id it makes one call and
\* redirects to the URL of that call when it succeeded, answers 500 when it
\* failed; the registry is left as it was.
StreamAnswersByLookup ==
    [][(reply' # reply /\ reply'.op = "stream") =>
          LET r == reply'
              id == reply'.id
          IN /\ uploaded_files' = uploaded_files
             /\ (r.status = 404) <=> (id \notin DOMAIN uploaded_files)
             /\ id \notin DOMAIN uploaded_files =>
                   (r.calls = 0 /\ r.url = NoUrl)
             /\ id \in DOMAIN uploaded_files =>
                   /\ r.calls = 1
                   /\ r.status \in {302, 500}
                   /\ (r.status = 302) <=> (r.result = "link")
                   /\ r.status = 302 =>
                         r.url = Presign(uploaded_files[id].object_key,
                                         3600, clock)
                   /\ r.status = 500 => r.url = NoUrl]_vars

\* C21 witness: /stream has redirected to a link issued after the record
\* was registered.
StreamRedirectReached ==
    /\ reply.op = "stream"
    /\ reply.status = 302
    /\ reply.url[4] > uploaded_files[reply.id].upload_time

\* The presign call of an answer succeeded.
LinkIssued(r) == r.link = "link"

\* C22: upload completion and /download for a registered id each make
\* their own presign call and show the URL of that call, never the URL kept
\* in the registry; /download for an unknown id makes no call and reports
\* not-found (the text the handler ends with is the not-found text).
PresignedUrlsNeverReused ==
    [][(reply' # reply /\ reply'.op \in {"upload", "download"}
          /\ reply'.id # NoArg) =>
          LET r == reply'
              id == reply'.id
          IN IF id \in DOMAIN uploaded_files'
             THEN /\ r.calls = 1
                  /\ LinkIssued(r) =>
                        r.url = Presign(uploaded_files'[id].object_key,
                                        86400, clock')
                  /\ ~LinkIssued(r) => r.url = NoUrl
                  /\ r.url # uploaded_files'[id].download_url
             ELSE /\ r.op = "download"
                  /\ r.result = "not found"
                  /\ r.calls = 0
                  /\ r.url = NoUrl]_vars

\* The last answer came from a presign call that failed.
PresignFailed(r) ==
    /\ r.op \in {"upload", "download", "stream"}
    /\ r.calls = 1
    /\ r.url = NoUrl

\* A /download of the id whose presign call succeeds.
DownloadSucceeds(id) ==
    DownloadCommand(id, TRUE, FALSE) /\ reply'.result = "link"

\* C23: a presign failure at upload completion, on /download or on /stream
\* leaves every registered record present and identical, the record asked
\* for included, and a later presign request for that id can succeed.
PresignFailureKeepsRecord ==
    /\ [](PresignFailed(reply) =>
             /\ reply.id \in DOMAIN uploaded_files
             /\ ENABLED DownloadSucceeds(reply.id))
    /\ [][(reply' # reply /\ PresignFailed(reply')) =>
             /\ \A k \in DOMAIN uploaded_files :
                   /\ k \in DOMAIN uploaded_files'
                   /\ uploaded_files'[k] = uploaded_files[k]
             /\ reply'.op # "upload" => uploaded_files' = uploaded_files]_vars

\* C23 witness: the presign call of an upload completion failed with other
\* records registered before it.
UploadPresignFailedReached ==
    /\ PresignFailed(reply)
    /\ reply.op = "upload"
    /\ Len(order) > 1


\* ======================================================================
\* Further properties of the file handler (specification Spec).
\* ======================================================================

\* Where an invocation is after one of its legs failed.
FailurePath ==
    {"except", "errorsent", "finalfail", "failsent", "done", "crashed"}

\* Where an invocation whose download failed is never found again: in a
\* new download, in a transfer, or on the success branch.
NotAfterFailedDownload ==
    {"guard", "initsent", "downloading", "uploading", "finalok", "successsent"}

\* C24: no leg is retried: in every invocation the download and the upload
\* are each started at most once and upload_file is called at most once;
\* after the download has failed it is not called again and no transfer
\* is started, and after the upload has failed the invocation is on its
\* failure path without starting it again.
NoLegRetried ==
    [][\A i \in Invocations :
          /\ (dl'[i] = "running" /\ dl[i] # "running") => dl[i] = "none"
          /\ (wk'[i] = "running" /\ wk[i] # "running") => wk[i] = "none"
          /\ poll[i] = "returned" => poll'[i] = "returned"
          /\ dl[i] = "failed" =>
                /\ dl'[i] = "failed"
                /\ wk'[i] = "none"
                /\ pc'[i] \notin NotAfterFailedDownload
          /\ (UploadFailed(i) /\ poll[i] = "returned") =>
                /\ wk'[i] = wk[i]
                /\ dl'[i] = "ok"
                /\ pc'[i] \in FailurePath]_vars

\* C24 witness: one invocation has ended after its download failed, another
\* after its upload failed.
BothLegsFailedOnceReached ==
    \E i, j \in Invocations :
        /\ dl[i] = "failed" /\ pc[i] = "done"
        /\ dl[j] = "ok" /\ wk[j] = "clienterror" /\ pc[j] = "done"


\* ======================================================================
\* Further properties of the ProgressTracker (specification TrackerSpec).
\* ======================================================================

\* C26: every bar rendered during any sequence of calls has exactly 20
\* cells, floor(transferred * 20 / totalSize) of them filled and the rest
\* empty, the filled count never negative and never above 20.
ProgressBarHasTwentyCells ==
    current_progress # << >> =>
        LET bar == current_progress[1] IN
        /\ bar.filled + bar.empty = 20
        /\ bar.filled = (bar.size * 20) \div bar.of
        /\ bar.filled >= 0
        /\ bar.filled <= 20


\* ======================================================================
\* The two progress renderers side by side: ProgressTracker.__call__ of
\* the upload leg and DownloadProgress.update of the download leg, given
\* the same transferred amount (in MiB), total, elapsed time and time
\* since the last sample (in ticks of half a second).
\* ======================================================================

\* `if current_time - self.last_update > 1.5:` of the download leg.
DownloadInterval == 3

\* "--:--"
Unknown == <<"--", "--">>

\* _format_time of a whole number of seconds: minutes and seconds
\* (`seconds // 60` and `seconds % 60` of a float are exact).
FormatTime(sec) == <<sec \div 60, sec % 60>>

\* _format_time of eta_seconds = (total - transferred) / speed_bps for
\* n MiB left, b MiB (b > 0) done in e ticks (e > 0): "--:--" for a
\* negative time (line 111), else the whole seconds.  speed_bps is
\* b MiB / (e / 2) s, so the double is n / (b / e) halved (the factors 2^20
\* and 2 only move the exponent).  The exact quotient n * e / (2 * b)
\* decides unless it is a whole number, which the double can miss from
\* below.
Eta(n, b, e) ==
    IF n < 0 THEN Unknown
    ELSE IF n > 0 /\ (n * e) % (2 * b) = 0
    THEN LET eta == FlDivBy(n, FlDiv(b, e))
         IN  FormatTime(FloorOf([m |-> eta.m, e |-> eta.e - 1]))
    ELSE FormatTime((n * e) \div (2 * b))

\* f"{speed_mbps:.2f}" in hundredths of a MB/s, for b MiB in e ticks:
\* speed_mbps is the double 2 * b / e (the division by 1024 * 1024 is
\* exact); the exact quotient decides unless it lies between two
\* hundredths, where the double does.
SpeedCenti(b, e) ==
    LET q == (200 * b) \div e
        r == (200 * b) % e
    IN  IF 2 * r = e THEN Nearest(FlDiv(2 * b, e), 100)
        ELSE IF 2 * r > e THEN q + 1 ELSE q

\* The upload leg, lines 55-81: ETA only with elapsed time and bytes.
UploadText(b, t, e) ==
    [pct |-> PctTenths(b, t),
     filled |-> Filled(b, t),
     empty |-> EmptyCells(b, t),
     speed |-> IF e > 0 THEN SpeedCenti(b, e) ELSE 0,
     eta |-> IF e > 0 /\ b > 0
             THEN Eta(t - b, b, e)
             ELSE Unknown]

\* The download leg, lines 549-568: `eta_seconds = (total - current) /
\* speed_bps if speed_bps > 0 else 0`, then _format_time.
DownloadText(b, t, e) ==
    [pct |-> PctTenths(b, t),
     filled |-> Filled(b, t),
     empty |-> EmptyCells(b, t),
     speed |-> IF e > 0 THEN SpeedCenti(b, e) ELSE 0,
     eta |-> IF e > 0
             THEN IF b > 0 THEN Eta(t - b, b, e)
                  ELSE FormatTime(0)
             ELSE Unknown]

\* The download leg publishes on the interval only (line 548).
DownloadShouldRender(gap, bytes, total) == gap > DownloadInterval

renderFrame == <<mainVars, uploaded_files, trackerVars, clock, throttleVars,
                 regVars, storeVars>>

\* Both legs are given b of t MiB after e ticks, gap ticks after their
\* last sample.
RenderBoth ==
    /\ \E t \in 1 .. MaxTotal, e \in 0 .. MaxElapsed, gap \in 0 .. MaxElapsed :
         \E b \in 0 .. t :
            sample' = [given |-> TRUE,
                       transferred |-> b, total |-> t,
                       elapsed |-> e, gap |-> gap,
                       up |-> [published |-> ShouldRender(gap, b, t),
                               text |-> UploadText(b, t, e)],
                       down |-> [published |-> DownloadShouldRender(gap, b, t),
                                 text |-> DownloadText(b, t, e)]]
    /\ UNCHANGED renderFrame

RenderNext == RenderBoth

RenderSpec == Init /\ [][RenderNext]_vars

\* C25: for the same (transferred, totalSize, elapsed) both legs render
\* the same percentage, speed, ETA and bar, both publish a sample at
\* completion, and both show the ETA as "--:--" when transferred is 0 or
\* the speed is not positive.
LegsRenderAlike ==
    sample.given =>
        /\ sample.up.text = sample.down.text
        /\ sample.transferred >= sample.total =>
              (sample.up.published /\ sample.down.published)
        /\ (sample.transferred = 0 \/ sample.elapsed = 0) =>
              /\ sample.up.text.eta = Unknown
              /\ sample.down.text.eta = Unknown


\* ======================================================================
\* The handler as far as names are concerned: what an invocation calls its
\* staging file and its object, and what it registers, for events of any
\* owner, file name and size.
\* ======================================================================

\* The file names of the events; "none" stands for a media object without
\* a file_name attribute.
Names == {"doc", "none"}

Events ==
    [has_file : {TRUE}, file_size : Sizes, from_user : Users, file_name : Names]

\* `getattr(file_info, 'file_name', f"file_{file_id}")`
OriginalName(e, id) ==
    IF e.file_name = "none" THEN <<"file", id>> ELSE e.file_name

\* f"files/{message.from_user.id}/{file_id}_{original_name}"; the parts are
\* kept apart, a uuid having a fixed length.
ObjectKey(e, id) == <<"files", e.from_user, id, OriginalName(e, id)>>

\* downloads_dir / f"{file_id}_{original_name}"
LocalPath(e, id) == <<"downloads", id, OriginalName(e, id)>>

\* upload_file's return value, the URL of the object.
ObjectUrl(key) == <<"https", "s3", key>>

\* The dict stored at lines 419-426 for the event e under the id.
EventRecord(e, id, now) ==
    [original_name |-> OriginalName(e, id),
     object_key |-> ObjectKey(e, id),
     download_url |-> ObjectUrl(ObjectKey(e, id)),
     file_size |-> e.file_size,
     upload_time |-> now,
     user_id |-> e.from_user]

MyPath(i) == LocalPath(ev[i], file_id[i])
MyKey(i) == ObjectKey(ev[i], file_id[i])

storeFrame == <<acquired, staging, dl, wk, sent, snap, lock, poll, task_done,
                upret, msgs, late, finals, trackerVars, clock, throttleVars,
                regVars, renderVars>>

\* Lines 352-376: the event, the size guard, the id.
Receive(i) ==
    /\ pc[i] = "idle"
    /\ \E e \in Events :
         /\ ev' = [ev EXCEPT ![i] = e]
         /\ IF TooLarge(e.file_size)
            THEN /\ pc' = [pc EXCEPT ![i] = "rejected"]
                 /\ UNCHANGED <<file_id, nextId>>
            ELSE /\ file_id' = [file_id EXCEPT ![i] = FreshId]
                 /\ nextId' = nextId + 1
                 /\ pc' = [pc EXCEPT ![i] = "staging"]
    /\ UNCHANGED <<uploaded_files, disk, bucket, storeFrame>>

\* Lines 386-395: the download writes the staging file, or fails.
Stage(i) ==
    /\ pc[i] = "staging"
    /\ \/ /\ disk' = Put(disk, MyPath(i), i)
          /\ pc' = [pc EXCEPT ![i] = "staged"]
       \/ /\ pc' = [pc EXCEPT ![i] = "failed"]
          /\ UNCHANGED disk
    /\ UNCHANGED <<ev, file_id, nextId, uploaded_files, bucket, storeFrame>>

\* Lines 411-415: upload_file sends the file at the staging path to the
\* object key; it fails when the file is not there, or in the backend.
Store(i) ==
    /\ pc[i] = "staged"
    /\ \/ /\ MyPath(i) \in DOMAIN disk
          /\ bucket' = Put(bucket, MyKey(i), disk[MyPath(i)])
          /\ pc' = [pc EXCEPT ![i] = "stored"]
       \/ /\ pc' = [pc EXCEPT ![i] = "failed"]
          /\ UNCHANGED bucket
    /\ UNCHANGED <<ev, file_id, nextId, uploaded_files, disk, storeFrame>>

\* Lines 417-426: the record.
Register(i) ==
    /\ pc[i] = "stored"
    /\ uploaded_files' =
          Put(uploaded_files, file_id[i], EventRecord(ev[i], file_id[i], clock))
    /\ pc' = [pc EXCEPT ![i] = "registered"]
    /\ UNCHANGED <<ev, file_id, nextId, disk, bucket, storeFrame>>

\* Lines 451-455: os.remove of the staging file, a failure being ignored.
Cleanup(i) ==
    /\ pc[i] = "registered"
    /\ \E removed \in BOOLEAN :
          disk' = IF removed THEN Remove(disk, MyPath(i)) ELSE disk
    /\ pc' = [pc EXCEPT ![i] = "done"]
    /\ UNCHANGED <<ev, file_id, nextId, uploaded_files, bucket, storeFrame>>

StoreNext ==
    \/ DeleteAny
    \/ \E i \in Invocations :
        \/ Receive(i)
        \/ Stage(i)
        \/ Store(i)
        \/ Register(i)
        \/ Cleanup(i)

StoreSpec == Init /\ [][StoreNext]_vars

\* C27: every record in the registry has a non-empty download URL, the
\* declared size of the event that produced it (so at most 4 GiB), that
\* event's owner, and an object key built from that owner and its own id.
RecordsMatchTheirEvents ==
    \A id \in DOMAIN uploaded_files :
        LET rec == uploaded_files[id] IN
        /\ rec.download_url # << >>
        /\ rec.file_size <= 4 * 1024 * 1024
        /\ rec.object_key[2] = rec.user_id
        /\ rec.object_key[3] = id
        /\ \E i \in Invocations :
              /\ file_id[i] = id
              /\ rec.file_size = ev[i].file_size
              /\ rec.user_id = ev[i].from_user

\* C27 witness: two owners have records, one of them of exactly 4 GiB.
RecordsOfTwoOwnersReached ==
    \E j, k \in DOMAIN uploaded_files :
        /\ uploaded_files[j].user_id # uploaded_files[k].user_id
        /\ uploaded_files[j].file_size = MaxFileSize

\* The invocations that have an id.
Started == {i \in Invocations : file_id[i] # 0}

\* C28: two invocations, also of the same owner and file name, never share
\* a staging path or an object key: the staging file of an invocation is
\* its own from its download to its removal, and the object under its key
\* is never another invocation's.
InvocationsKeepToTheirOwnFiles ==
    /\ \A i, j \in Started :
          i # j => (MyPath(i) # MyPath(j) /\ MyKey(i) # MyKey(j))
    /\ \A i \in Invocations :
          /\ pc[i] \in {"staged", "stored", "registered"} =>
                (MyPath(i) \in DOMAIN disk /\ disk[MyPath(i)] = i)
          /\ (pc[i] \in {"stored", "registered", "done"}
                 /\ MyKey(i) \in DOMAIN bucket) => bucket[MyKey(i)] = i
    /\ \A key \in DOMAIN bucket : \E i \in Started : key = MyKey(i)

\* C28 witness: two invocations of one owner and one file name hold their
\* staging files at the same time, both objects uploaded.
SameOwnerSameNameStagedReached ==
    \E i, j \in Invocations :
        /\ i # j
        /\ pc[i] = "registered" /\ pc[j] = "registered"
        /\ ev[i].from_user = ev[j].from_user
        /\ ev[i].file_name = "doc" /\ ev[j].file_name = "doc"

====
